---- MODULE Spec2Model ----
(***************************************************************************)
(* ghlabel: one invocation of main (src/src/main.rs) against a GitHub-like *)
(* label service, through Client (src/src/client.rs), with Label values    *)
(* (src/src/label.rs).  A behaviour is one run of the program, optionally  *)
(* followed by a second run against the remote state the first run left.   *)
(*                                                                         *)
(* A label name is the sequence of its space-separated words, so that the  *)
(* percent-encoding done by Url::parse is computed and not assumed; a URL  *)
(* is the string the code formats.                                         *)
(***************************************************************************)
EXTENDS Integers, Sequences, FiniteSets, TLC

VARIABLES
    user,             \* --user as typed on the command line
    dry_run,          \* --dry-run
    should_create,    \* !--no-create
    should_delete,    \* !--no-delete
    labels,           \* the template's labels (get_labels)
    remote,           \* the labels the service holds, in the order it lists them
    pc,               \* position in main
    existing_labels,  \* the snapshot returned by client.list()
    i,                \* index of the running for loop
    requests,         \* the HTTP requests sent in this run, in order
    response,         \* the response to the last request
    result,           \* what the last client call returned
    output,           \* the lines printed in this run, in order
    actions,          \* the create/update/delete branches main took, in order
    exit_code,        \* the process's exit code once it has ended
    run,              \* "first" or "second" invocation
    prev              \* what the first invocation did, during the second

vars == <<user, dry_run, should_create, should_delete, labels, remote, pc,
          existing_labels, i, requests, response, result, output, actions,
          exit_code, run, prev>>

-----------------------------------------------------------------------------
(* Bounds and input alphabets *)

MaxTemplate == 2
MaxExisting == 2

Names == {<<"bug">>, <<"wip">>, <<"help", "wanted">>}
Colors == {"fc2929", "cccccc"}

\* The owner as the service spells it, and the spellings a user may type:
\* the service resolves the owner case-insensitively.
CanonicalUser == "rust-lang"
Users == {"rust-lang", "Rust-Lang"}
Repo == "rust"
Endpoint == "https://api.github.com"

Statuses == {200, 201, 204, 500}

SeqsUpTo(S, n) == UNION {[1..k -> S] : k \in 0..n}

-----------------------------------------------------------------------------
(* label.rs *)

RECURSIVE Join(_, _)
Join(words, sep) ==
    IF Len(words) = 0 THEN ""
    ELSE IF Len(words) = 1 THEN words[1]
    ELSE words[1] \o sep \o Join(Tail(words), sep)

\* Mutation: the name is put in the path as it is written.
PercentEncodeNone(name) == Join(name, " ")

\* Url::parse(..).to_string() on the path segment of a name: a space is
\* written %20.
PercentEncode(name) == Join(name, "%20")

LabelUrl(endpoint, name, u, repo) ==
    endpoint \o "/repos/" \o u \o "/" \o repo \o "/labels/" \o PercentEncode(name)

LabelNew(endpoint, name, color, u, repo) ==
    [color |-> color, name |-> name, url |-> LabelUrl(endpoint, name, u, repo)]

LabelEq(a, b) == a.name = b.name

-----------------------------------------------------------------------------
(* Vec<Label>::contains and Iterator::find as main uses them *)

Contains(s, label) == \E k \in 1..Len(s) : LabelEq(s[k], label)

FindByName(s, label) ==
    s[CHOOSE k \in 1..Len(s) :
        /\ s[k].name = label.name
        /\ \A j \in 1..(k - 1) : s[j].name # label.name]

get_labels(template, u) ==
    [k \in 1..Len(template) |->
        LabelNew(Endpoint, template[k].name, template[k].color, u, Repo)]

-----------------------------------------------------------------------------
(* HTTP messages *)

NoBody == [text |-> "", items |-> <<>>]
TextBody(t) == [text |-> t, items |-> <<>>]
JsonArray(items) == [text |-> "json", items |-> items]

Http(status, body) == [kind |-> "http", status |-> status, body |-> body]
TransportFailure == [kind |-> "transport", status |-> 0, body |-> NoBody]
NoResponse == [kind |-> "none", status |-> 0, body |-> NoBody]

CollectionUrl(u) == Endpoint \o "/repos/" \o u \o "/" \o Repo \o "/labels"

\* Mutation: the colour is left out of the body.
to_json_string_no_color(label) == [name |-> label.name, color |-> ""]

to_json_string(label) == [name |-> label.name, color |-> label.color]
NoData == [name |-> <<>>, color |-> ""]

Request(op, method, url, data, pos) ==
    [op |-> op, method |-> method, url |-> url, data |-> data, pos |-> pos]

ListRequest(u) == Request("list", "GET", CollectionUrl(u), NoData, 0)
CreateRequest(u, label, pos) ==
    Request("create", "POST", CollectionUrl(u), to_json_string(label), pos)
UpdateRequest(label, pos) ==
    Request("update", "PATCH", label.url, to_json_string(label), pos)
DeleteRequest(label, pos) ==
    Request("delete", "DELETE", label.url, NoData, pos)

-----------------------------------------------------------------------------
(* client.rs: what each call returns for a response *)

Ok(value) == [ok |-> TRUE, value |-> value, kind |-> "", body |-> NoBody]
Err(kind, body) == [ok |-> FALSE, value |-> <<>>, kind |-> kind, body |-> body]
NoResult == [ok |-> FALSE, value |-> <<>>, kind |-> "none", body |-> NoBody]

\* Mutation: any 2xx status counts as created.
ClientCreateAny2xx(resp) ==
    IF resp.kind = "transport" THEN Err("Hyper", NoBody)
    ELSE IF resp.status \in 200..299 THEN Ok(<<>>)
    ELSE Err("NotOk", resp.body)

ClientCreate(resp) ==
    IF resp.kind = "transport" THEN Err("Hyper", NoBody)
    ELSE IF resp.status = 201 THEN Ok(<<>>)
    ELSE Err("NotOk", resp.body)

ClientDelete(resp) ==
    IF resp.kind = "transport" THEN Err("Hyper", NoBody)
    ELSE IF resp.status = 204 THEN Ok(<<>>)
    ELSE Err("NotOk", resp.body)

JsonDecode(body) ==
    IF body.text = "json" THEN Ok(body.items) ELSE Err("Json", NoBody)

\* Mutation: any 2xx status is taken for a listing.
ClientListLax(resp) ==
    IF resp.kind = "transport" THEN Err("Hyper", NoBody)
    ELSE IF resp.status \notin 200..299 THEN Err("NotOk", resp.body)
    ELSE JsonDecode(resp.body)

ClientList(resp) ==
    IF resp.kind = "transport" THEN Err("Hyper", NoBody)
    ELSE IF resp.status # 200 THEN Err("NotOk", resp.body)
    ELSE JsonDecode(resp.body)

ClientUpdate(resp) ==
    IF resp.kind = "transport" THEN Err("Hyper", NoBody)
    ELSE IF resp.status = 200 THEN Ok(<<>>)
    ELSE Err("NotOk", resp.body)

-----------------------------------------------------------------------------
(* The label service, as GitHub's REST API behaves for one repository *)

ServiceLabel(name, color) ==
    LabelNew(Endpoint, name, color, CanonicalUser, Repo)

\* The owner in a URL is matched whatever its case.
Resolves(url, label) ==
    \E u \in Users : url = LabelUrl(Endpoint, label.name, u, Repo)

SuccessStatus(op) ==
    CASE op = "list" -> 200
      [] op = "create" -> 201
      [] op = "update" -> 200
      [] op = "delete" -> 204

\* Whether the service can carry the request out.
Applicable(req, rem) ==
    CASE req.op = "create" -> \A k \in 1..Len(rem) : rem[k].name # req.data.name
      [] req.op \in {"update", "delete"} ->
            \E k \in 1..Len(rem) : Resolves(req.url, rem[k])
      [] OTHER -> TRUE

Applied(req, rem) ==
    CASE req.op = "create" ->
            Append(rem, ServiceLabel(req.data.name, req.data.color))
      [] req.op = "update" ->
            [k \in 1..Len(rem) |->
                IF Resolves(req.url, rem[k])
                THEN ServiceLabel(req.data.name, req.data.color)
                ELSE rem[k]]
      [] req.op = "delete" ->
            SelectSeq(rem, LAMBDA l : ~Resolves(req.url, l))
      [] OTHER -> rem

StatusText(status) ==
    IF status = 500 THEN "Internal Server Error" ELSE "{}"

ReplyBodies(req, status, rem) ==
    IF req.op = "list" /\ status = 200
    THEN {JsonArray(rem), TextBody("<html>")}
    ELSE {TextBody(StatusText(status))}

Replies(req, rem) ==
    {TransportFailure} \cup
    UNION {{Http(s, b) : b \in ReplyBodies(req, s, rem)} :
            s \in {t \in Statuses : t = SuccessStatus(req.op) => Applicable(req, rem)}}

ServiceStep(req, reply, rem) ==
    IF reply.kind = "http" /\ reply.status = SuccessStatus(req.op)
    THEN Applied(req, rem)
    ELSE rem

-----------------------------------------------------------------------------
(* main.rs: what is printed *)

NoError == [kind |-> "none", body |-> NoBody]
Line(tag, name, color) ==
    [tag |-> tag, name |-> name, color |-> color, error |-> NoError]
ErrorLine(tag, res) ==
    [tag |-> tag, name |-> <<>>, color |-> "",
     error |-> [kind |-> res.kind, body |-> res.body]]

DryRunLine(line) == [line EXCEPT !.tag = "[DRY RUN] " \o line.tag]

Report(res, line) == IF res.ok THEN line ELSE ErrorLine("FAILURE", res)

\* Mutation: a label found in the snapshot is always updated.
NeedsUpdateAlways(label, existing_label) == TRUE

NeedsUpdate(label, existing_label) == label.color # existing_label.color

\* Mutation: a failed call ends the process like a failed list call.
AfterCallAbort(res) ==
    IF res.ok THEN [pc |-> pc, exit_code |-> exit_code]
    ELSE [pc |-> "exited", exit_code |-> 1]

\* Where main stands after a client call of the apply phase returned.
AfterCall(res) == [pc |-> pc, exit_code |-> exit_code]

-----------------------------------------------------------------------------
(* Initial states: a command line, a template, a remote state *)

Templates == SeqsUpTo([name : Names, color : Colors], MaxTemplate)

Remotes ==
    {[k \in 1..Len(t) |-> ServiceLabel(t[k].name, t[k].color)] :
        t \in {s \in SeqsUpTo([name : Names, color : Colors], MaxExisting) :
                \A j, k \in 1..Len(s) : j # k => s[j].name # s[k].name}}

NoRun == [ran |-> FALSE, dry_run |-> FALSE, should_create |-> FALSE,
          should_delete |-> FALSE, existing_labels |-> <<>>,
          requests |-> <<>>, output |-> <<>>, actions |-> <<>>]

Init ==
    /\ user \in Users
    /\ dry_run \in BOOLEAN
    /\ should_create \in BOOLEAN
    /\ should_delete \in BOOLEAN
    /\ \E t \in Templates : labels = get_labels(t, user)
    /\ remote \in Remotes
    /\ pc = "list"
    /\ existing_labels = <<>>
    /\ i = 0
    /\ requests = <<>>
    /\ response = NoResponse
    /\ result = NoResult
    /\ output = <<>>
    /\ actions = <<>>
    /\ exit_code = -1
    /\ run = "first"
    /\ prev = NoRun

-----------------------------------------------------------------------------
(* main.rs: the steps of main *)

config == <<user, dry_run, should_create, should_delete, labels, run, prev>>

\* let existing_labels = match client.list() { ... }
List ==
    /\ pc = "list"
    /\ \E reply \in Replies(ListRequest(user), remote) :
        LET res == ClientList(reply) IN
        /\ requests' = Append(requests, ListRequest(user))
        /\ response' = reply
        /\ result' = res
        /\ IF res.ok
           THEN /\ existing_labels' = res.value
                /\ pc' = "create"
                /\ i' = 1
                /\ UNCHANGED <<output, exit_code>>
           ELSE /\ output' = Append(output, ErrorLine("LIST ERROR", res))
                /\ pc' = "exited"
                /\ exit_code' = 1
                /\ UNCHANGED <<existing_labels, i>>
    /\ UNCHANGED <<config, remote, actions>>

ClientCall(op, resp) ==
    CASE op = "create" -> ClientCreate(resp)
      [] op = "update" -> ClientUpdate(resp)
      [] op = "delete" -> ClientDelete(resp)
      [] op = "list" -> ClientList(resp)

\* One client call of the apply phase and the line printed for it.
Call(req, line) ==
    \E reply \in Replies(req, remote) :
        LET res == ClientCall(req.op, reply) IN
        /\ requests' = Append(requests, req)
        /\ response' = reply
        /\ result' = res
        /\ remote' = ServiceStep(req, reply, remote)
        /\ output' = Append(output, Report(res, line))
        /\ pc' = AfterCall(res).pc
        /\ exit_code' = AfterCall(res).exit_code

Announce(line) ==
    /\ output' = Append(output, DryRunLine(line))
    /\ UNCHANGED <<requests, response, result, remote, pc, exit_code>>

Action(req, line) ==
    [verb |-> req.op, name |-> line.name, color |-> line.color, pos |-> req.pos]

\* Mutation: the dry-run flag is not consulted.
ActLive(req, line) ==
    /\ Call(req, line)
    /\ actions' = Append(actions, Action(req, line))

\* if dry_run { println!(..) } else { match client.<op>(..) { .. } }
Act(req, line) ==
    /\ IF dry_run THEN Announce(line) ELSE Call(req, line)
    /\ actions' = Append(actions, Action(req, line))

\* Mutation: the create loop runs whatever --no-create says.
InCreateLoopAlways == pc = "create" /\ i <= Len(labels)

InCreateLoop == pc = "create" /\ should_create /\ i <= Len(labels)

KeepLabel ==
    /\ InCreateLoop
    /\ Contains(existing_labels, labels[i])
    /\ ~NeedsUpdate(labels[i], FindByName(existing_labels, labels[i]))
    /\ i' = i + 1
    /\ UNCHANGED <<config, remote, pc, existing_labels, requests, response,
                   result, output, actions, exit_code>>

UpdateLabel ==
    /\ InCreateLoop
    /\ Contains(existing_labels, labels[i])
    /\ NeedsUpdate(labels[i], FindByName(existing_labels, labels[i]))
    /\ Act(UpdateRequest(labels[i], i),
           Line("UPDATE", labels[i].name, labels[i].color))
    /\ i' = i + 1
    /\ UNCHANGED <<config, existing_labels>>

CreateLabel ==
    /\ InCreateLoop
    /\ ~Contains(existing_labels, labels[i])
    /\ Act(CreateRequest(user, labels[i], i),
           Line("CREATE", labels[i].name, labels[i].color))
    /\ i' = i + 1
    /\ UNCHANGED <<config, existing_labels>>

EndCreate ==
    /\ pc = "create"
    /\ ~should_create \/ i > Len(labels)
    /\ pc' = "delete"
    /\ i' = 1
    /\ UNCHANGED <<config, remote, existing_labels, requests, response,
                   result, output, actions, exit_code>>

\* Mutation: the delete loop does not wait for the create loop to end.
InDeleteLoopEarly ==
    pc \in {"create", "delete"} /\ should_delete /\ i <= Len(existing_labels)

InDeleteLoop == pc = "delete" /\ should_delete /\ i <= Len(existing_labels)

\* Mutation: the negation is dropped.
NotInTemplateNegated(existing_label) == Contains(labels, existing_label)

\* if !labels.contains(existing_label)
NotInTemplate(existing_label) == ~Contains(labels, existing_label)

KeepExisting ==
    /\ InDeleteLoop
    /\ ~NotInTemplate(existing_labels[i])
    /\ i' = i + 1
    /\ UNCHANGED <<config, remote, pc, existing_labels, requests, response,
                   result, output, actions, exit_code>>

DeleteLabel ==
    /\ InDeleteLoop
    /\ NotInTemplate(existing_labels[i])
    /\ Act(DeleteRequest(existing_labels[i], i),
           Line("DELETE", existing_labels[i].name, ""))
    /\ i' = i + 1
    /\ UNCHANGED <<config, existing_labels>>

\* main returns
Finish ==
    /\ pc = "delete"
    /\ ~should_delete \/ i > Len(existing_labels)
    /\ pc' = "done"
    /\ exit_code' = 0
    /\ UNCHANGED <<config, remote, existing_labels, i, requests, response,
                   result, output, actions>>

Failures(out) == SelectSeq(out, LAMBDA line : line.tag = "FAILURE")

\* After a run that reported no failure, the operator runs the program again,
\* live, with the same template and toggles on the same repository.
Rerun ==
    /\ pc = "done"
    /\ run = "first"
    /\ Failures(output) = <<>>
    /\ run' = "second"
    /\ prev' = [ran |-> TRUE, dry_run |-> dry_run,
                should_create |-> should_create,
                should_delete |-> should_delete,
                existing_labels |-> existing_labels,
                requests |-> requests, output |-> output,
                actions |-> actions]
    /\ dry_run' = FALSE
    /\ pc' = "list"
    /\ existing_labels' = <<>>
    /\ i' = 0
    /\ requests' = <<>>
    /\ response' = NoResponse
    /\ result' = NoResult
    /\ output' = <<>>
    /\ actions' = <<>>
    /\ exit_code' = -1
    /\ UNCHANGED <<user, should_create, should_delete, labels, remote>>

Next ==
    \/ List
    \/ KeepLabel
    \/ UpdateLabel
    \/ CreateLabel
    \/ EndCreate
    \/ KeepExisting
    \/ DeleteLabel
    \/ Finish
    \/ Rerun

Spec == Init /\ [][Next]_vars

-----------------------------------------------------------------------------
(* Vocabulary of the properties *)

Mutations(reqs) == SelectSeq(reqs, LAMBDA r : r.op # "list")

InSnapshot(name) ==
    \E e \in 1..Len(existing_labels) : existing_labels[e].name = name

InTemplate(name) == \E k \in 1..Len(labels) : labels[k].name = name

\* The snapshot's first label of that name.
Snapshot(name) ==
    existing_labels[CHOOSE e \in 1..Len(existing_labels) :
        /\ existing_labels[e].name = name
        /\ \A d \in 1..(e - 1) : existing_labels[d].name # name]

\* Template entry k names a label of the snapshot whose colour differs.
Differs(k) ==
    /\ InSnapshot(labels[k].name)
    /\ Snapshot(labels[k].name).color # labels[k].color

\* Template entry k names a label of the snapshot of the same colour.
Matches(k) ==
    /\ InSnapshot(labels[k].name)
    /\ Snapshot(labels[k].name).color = labels[k].color

CreatePhaseOver == pc \in {"delete", "done"}

ActionsAt(verbs, k) ==
    SelectSeq(actions, LAMBDA a : a.verb \in verbs /\ a.pos = k)
RequestsAt(ops, k) ==
    SelectSeq(requests, LAMBDA r : r.op \in ops /\ r.pos = k)
ActionsNamed(verbs, name) ==
    SelectSeq(actions, LAMBDA a : a.verb \in verbs /\ a.name = name)

NoConflictingDuplicates ==
    \A j, k \in 1..Len(labels) :
        labels[j].name = labels[k].name => labels[j].color = labels[k].color

\* The first run was live with both phases enabled and every call of it
\* succeeded (Rerun follows only a run without a failure).
FirstRunAppliedAll ==
    /\ run = "second"
    /\ ~prev.dry_run
    /\ prev.should_create
    /\ prev.should_delete

-----------------------------------------------------------------------------
(* C1: idempotence of a run *)

\* C1 as stated: after a live run whose calls all succeeded, a second run
\* on any template issues no create, update or delete.
C1_AsStated ==
    FirstRunAppliedAll => actions = <<>> /\ Mutations(requests) = <<>>

\* C1, amended: after a live run (create and delete enabled) whose calls all
\* succeeded, a second run issues no create, update or delete and prints
\* nothing, provided no name occurs in the template with two different
\* colours.
C1_Idempotent ==
    (FirstRunAppliedAll /\ NoConflictingDuplicates) =>
        /\ actions = <<>>
        /\ Mutations(requests) = <<>>
        /\ pc = "done" => output = <<>>

C1_Witness ==
    /\ FirstRunAppliedAll
    /\ NoConflictingDuplicates
    /\ pc = "done"
    /\ \A v \in {"create", "update", "delete"} :
        \E a \in 1..Len(prev.actions) : prev.actions[a].verb = v
    /\ actions = <<>>

-----------------------------------------------------------------------------
(* C2: one Update per label whose colour differs *)

-----------------------------------------------------------------------------
(* C3: phase barrier and ordering *)

\* Template entry k calls for a create or an update.
Wanted(k) == ~InSnapshot(labels[k].name) \/ Differs(k)

\* Snapshot entry e calls for a delete.
Unwanted(e) == ~InTemplate(existing_labels[e].name)

\* C3: no create or update follows a delete; creates and updates follow the
\* template's order, deletes the snapshot's order; a live run sends exactly
\* the requests of its actions in that order; and once a delete is
\* attempted every create and update of the run has been attempted.
C3_PhaseOrder ==
    /\ \A a, b \in 1..Len(actions) :
        a < b =>
            /\ actions[a].verb = "delete" => actions[b].verb = "delete"
            /\ (actions[a].verb = "delete" <=> actions[b].verb = "delete")
                    => actions[a].pos < actions[b].pos
    /\ \A a \in 1..Len(actions) :
        IF actions[a].verb = "delete"
        THEN /\ actions[a].pos \in 1..Len(existing_labels)
             /\ actions[a].name = existing_labels[actions[a].pos].name
        ELSE /\ actions[a].pos \in 1..Len(labels)
             /\ actions[a].name = labels[actions[a].pos].name
             /\ actions[a].color = labels[actions[a].pos].color
    /\ ~dry_run =>
        /\ Len(Mutations(requests)) = Len(actions)
        /\ \A a \in 1..Len(actions) :
            /\ Mutations(requests)[a].op = actions[a].verb
            /\ Mutations(requests)[a].pos = actions[a].pos
    /\ (\E a \in 1..Len(actions) : actions[a].verb = "delete") =>
        \A k \in 1..Len(labels) :
            (should_create /\ Wanted(k)) =>
                Len(ActionsAt({"create", "update"}, k)) = 1

C3_Witness ==
    /\ pc = "done"
    /\ ~dry_run
    /\ Len(actions) = 3
    /\ actions[1].verb = "create"
    /\ actions[2].verb = "update"
    /\ actions[3].verb = "delete"
    /\ output[1].tag = "FAILURE"

-----------------------------------------------------------------------------
(* C4: best-effort execution *)

\* C4: only a failed list call ends a run early; after it succeeded a
\* failed call prints its own FAILURE line and the run goes on: main always
\* has a next step until it returns, every create, update and delete the
\* snapshot calls for is attempted whatever failed before, each call prints
\* one line, and main returns with exit code 0.
C4_BestEffort ==
    /\ pc = "exited" => Mutations(requests) = <<>> /\ actions = <<>>
    /\ pc \in {"create", "delete"} =>
        ENABLED (KeepLabel \/ UpdateLabel \/ CreateLabel \/ EndCreate
                    \/ KeepExisting \/ DeleteLabel \/ Finish)
    /\ pc = "done" =>
        /\ exit_code = 0
        /\ should_create =>
            \A k \in 1..Len(labels) :
                Wanted(k) => Len(ActionsAt({"create", "update"}, k)) = 1
        /\ should_delete =>
            \A e \in 1..Len(existing_labels) :
                Unwanted(e) => Len(ActionsAt({"delete"}, e)) = 1
    /\ (~dry_run /\ pc # "exited") =>
        /\ Len(output) = Len(Mutations(requests))
        /\ Len(output) = Len(actions)
    /\ (~dry_run /\ Mutations(requests) # <<>>) =>
        LET last == output[Len(output)] IN
        IF result.ok
        THEN last.tag \in {"CREATE", "UPDATE", "DELETE"}
        ELSE /\ last.tag = "FAILURE"
             /\ last.error = [kind |-> result.kind, body |-> result.body]

C4_Witness ==
    /\ pc = "done"
    /\ exit_code = 0
    /\ Len(output) = 3
    /\ output[1].tag = "FAILURE"
    /\ output[2].tag = "FAILURE"
    /\ output[3].tag = "DELETE"

-----------------------------------------------------------------------------
(* C5: dry-run equivalence *)

VerbOfTag(tag) ==
    CASE tag = "[DRY RUN] CREATE" -> "create"
      [] tag = "[DRY RUN] UPDATE" -> "update"
      [] tag = "[DRY RUN] DELETE" -> "delete"
      [] OTHER -> "not a dry-run line"

\* What the lines of a dry run report: verb, name, colour.
Reported(out) ==
    [k \in 1..Len(out) |->
        [verb |-> VerbOfTag(out[k].tag), name |-> out[k].name,
         color |-> out[k].color]]

\* What the requests of the running live run attempt: verb, name, colour.
Attempted ==
    LET reqs == Mutations(requests) IN
    [k \in 1..Len(reqs) |->
        [verb |-> reqs[k].op,
         name |-> IF reqs[k].op = "delete"
                  THEN existing_labels[reqs[k].pos].name
                  ELSE reqs[k].data.name,
         color |-> reqs[k].data.color]]

DryThenLive == run = "second" /\ prev.dry_run /\ ~dry_run /\ pc = "done"

\* C5 as stated: a dry run reports what the live run attempts and sends no
\* request at all.
C5_AsStated ==
    /\ dry_run => requests = <<>>
    /\ DryThenLive => Reported(prev.output) = Attempted

\* C5, amended: a dry run reports the sequence of actions the live run with
\* the same template, toggles and remote state attempts; the only request
\* it sends is the initial list call, never a create, update or delete.
C5_DryRunEquivalence ==
    /\ dry_run =>
        \A r \in 1..Len(requests) : requests[r] = ListRequest(user) /\ r = 1
    /\ DryThenLive =>
        /\ prev.existing_labels = existing_labels
        /\ Mutations(prev.requests) = <<>>
        /\ Reported(prev.output) = Attempted

C5_Witness ==
    /\ DryThenLive
    /\ Len(prev.output) = 3
    /\ \A v \in {"create", "update", "delete"} :
        \E a \in 1..3 : Reported(prev.output)[a].verb = v
    /\ Len(Failures(output)) = 2

-----------------------------------------------------------------------------
(* C6: a failed list call is fatal *)

-----------------------------------------------------------------------------
(* C7: the suppression toggles are independent *)

CreateTags == {"CREATE", "UPDATE", "[DRY RUN] CREATE", "[DRY RUN] UPDATE"}
DeleteTags == {"DELETE", "[DRY RUN] DELETE"}

\* C7: with no-create nothing is created or updated, with no-delete nothing
\* is deleted, in requests, actions and printed lines alike; and at the end
\* of a run the creates and updates are those the template and snapshot
\* call for iff create is enabled, whatever the delete toggle, the deletes
\* those they call for iff delete is enabled, whatever the create toggle.
C7_Toggles ==
    /\ ~should_create =>
        /\ \A a \in 1..Len(actions) : actions[a].verb = "delete"
        /\ \A r \in 1..Len(requests) : requests[r].op \in {"list", "delete"}
        /\ \A l \in 1..Len(output) : output[l].tag \notin CreateTags
    /\ ~should_delete =>
        /\ \A a \in 1..Len(actions) : actions[a].verb # "delete"
        /\ \A r \in 1..Len(requests) : requests[r].op # "delete"
        /\ \A l \in 1..Len(output) : output[l].tag \notin DeleteTags
    /\ pc = "done" =>
        /\ \A k \in 1..Len(labels) :
            Len(ActionsAt({"create", "update"}, k)) =
                IF should_create /\ Wanted(k) THEN 1 ELSE 0
        /\ \A e \in 1..Len(existing_labels) :
            Len(ActionsAt({"delete"}, e)) =
                IF should_delete /\ Unwanted(e) THEN 1 ELSE 0

C7_Witness ==
    /\ pc = "done"
    /\ ~should_create
    /\ should_delete
    /\ \E k \in 1..Len(labels) : Wanted(k)
    /\ Len(existing_labels) = 2
    /\ Len(actions) = 2

-----------------------------------------------------------------------------
(* C8: disjoint name sets *)

Disjoint ==
    \A k \in 1..Len(labels) : \A e \in 1..Len(existing_labels) :
        labels[k].name # existing_labels[e].name

CreateAll ==
    [k \in 1..Len(labels) |->
        [verb |-> "create", name |-> labels[k].name,
         color |-> labels[k].color, pos |-> k]]

DeleteAll ==
    [e \in 1..Len(existing_labels) |->
        [verb |-> "delete", name |-> existing_labels[e].name,
         color |-> "", pos |-> e]]

\* C8: when no name is in both the template and the snapshot, a finished
\* run has produced a Create for every template entry (if create is
\* enabled) followed by a Delete for every snapshot label (if delete is
\* enabled), and nothing else; in particular no Update.
C8_DisjointNames ==
    (pc = "done" /\ Disjoint) =>
        actions = (IF should_create THEN CreateAll ELSE <<>>)
                    \o (IF should_delete THEN DeleteAll ELSE <<>>)

C8_Witness ==
    /\ pc = "done"
    /\ Disjoint
    /\ should_create
    /\ should_delete
    /\ Len(labels) = 2
    /\ Len(existing_labels) = 2
    /\ Len(actions) = 4

-----------------------------------------------------------------------------
(* C9: no action where the colours match *)

\* The name is in the snapshot and every template entry of that name has
\* the snapshot's colour.
SameColours(name) ==
    /\ InSnapshot(name)
    /\ InTemplate(name)
    /\ \A k \in 1..Len(labels) :
        labels[k].name = name => labels[k].color = Snapshot(name).color

RemoteMatches ==
    /\ \A k \in 1..Len(labels) : Matches(k)
    /\ \A e \in 1..Len(existing_labels) : InTemplate(existing_labels[e].name)

-----------------------------------------------------------------------------
(* C10: the client's status-code contract *)

====
